---- MODULE Spec2Model ----
(***************************************************************************)
(* ResilientClient of playground/client/advanced_demo.py: a circuit        *)
(* breaker and a token-bucket rate limiter around HTTPBinClient.echo_json, *)
(* run by asyncio tasks that share one client.  A task gives up control    *)
(* only at an await that suspends (asyncio.sleep, the network), so every   *)
(* action below is the code between two such awaits.                       *)
(*                                                                         *)
(* Time is counted in ticks, TicksPerSecond to the second; the bucket is   *)
(* counted in units of 1/TicksPerSecond token, so that fractional token    *)
(* levels and fractional waits are exact.                                  *)
(***************************************************************************)
EXTENDS Integers, FiniteSets, Sequences, TLC

\* ---------------------------------------------------------------- bounds
NumTasks == 2
TicksPerSecond == 2
MaxFineTicks == 2
MaxIdles == 1
MaxPassed == 12
\* The max_retry_attempts the client is built with: ResilientClient hands its
\* keyword arguments on to HTTPBinClient.
client_max_retry_attempts == 1

\* ----------------------------------------------------- program constants
failure_threshold == 5
recovery_timeout == 60
initial_tokens == 10
capacity == 10
token_refresh_rate == 1

Tasks == 1..NumTasks
NoTask == NumTasks + 1
RecoveryTicks == recovery_timeout * TicksPerSecond
OneToken == TicksPerSecond

Min(a, b) == IF a < b THEN a ELSE b

\* ------------------------------------------------- transport and retries
\* What one network attempt can come back with: an HTTP status, or no
\* status at all (a transport-level error).
NoStatus == 0
Responses == {200, 404, 503, NoStatus}

\* The max_retry_attempts a caller may pass: none (the client default), or a ceiling.
NoOverride == -1
Overrides == {NoOverride, 0}

\* The status codes a caller asks test_status for.
StatusCodes == {404, 503}

\* HTTPBinClient.STATUS_ENDPOINT as the class body builds it: the path is a
\* template, a prefix and a placeholder.
StatusEndpoint == [path |-> <<"/status/", "{code}">>, method |-> "GET"]

\* No descriptor: the task has no call through a copied descriptor under way.
NoEndpoint == [path |-> <<>>, method |-> "none"]

\* f"/status/{status_code}"
format_path(status_code) == <<"/status/", ToString(status_code)>>

\* A variant of the copy that writes the path into the descriptor itself.
model_copy_in_place(descriptor, path) ==
    [copy |-> [descriptor EXCEPT !.path = path],
     self |-> [descriptor EXCEPT !.path = path]]

\* EndpointConfig.model_copy(update={"path": path}): the new descriptor, and
\* the one copied as the call leaves it.
model_copy(descriptor, path) ==
    [copy |-> [descriptor EXCEPT !.path = path], self |-> descriptor]

\* ------------------------------------------------------- path templates
\* The path templates of the descriptors: STATUS_ENDPOINT, DELAY_ENDPOINT,
\* USER_ENDPOINT and JSON_POST_ENDPOINT, the last without a placeholder.
Templates ==
    {<<"/status/", "{code}">>, <<"/delay/", "{seconds}">>,
     <<"/users/", "{username}">>, <<"/post">>}

ParamNames == {"code", "seconds", "username"}

\* A parameter set gives each name a value, or no entry.
Absent == "absent"
ParamValues == {"404", "2", "octocat"}
ParamSets == [ParamNames -> ParamValues \cup {Absent}]

placeholder_of(name) ==
    CASE name = "code" -> "{code}"
      [] name = "seconds" -> "{seconds}"
      [] name = "username" -> "{username}"

placeholders(template) ==
    {n \in ParamNames : \E i \in DOMAIN template : template[i] = placeholder_of(n)}

keys(params) == {n \in ParamNames : params[n] # Absent}

\* A variant of render that lets entries without a placeholder pass.
render_lenient(template, params) ==
    IF placeholders(template) \subseteq keys(params)
    THEN [error |-> "none",
          path |-> [i \in DOMAIN template |->
                       IF \E n \in keys(params) : template[i] = placeholder_of(n)
                       THEN params[CHOOSE n \in keys(params) :
                                       template[i] = placeholder_of(n)]
                       ELSE template[i]]]
    ELSE [error |-> "TemplateError", path |-> <<>>]

\* EndpointDescriptor.render(path_params): the concrete path, or
\* TemplateError unless the entries match the placeholders both ways.
render(template, params) ==
    IF keys(params) = placeholders(template)
    THEN [error |-> "none",
          path |-> [i \in DOMAIN template |->
                       IF \E n \in keys(params) : template[i] = placeholder_of(n)
                       THEN params[CHOOSE n \in keys(params) :
                                       template[i] = placeholder_of(n)]
                       ELSE template[i]]]
    ELSE [error |-> "TemplateError", path |-> <<>>]

\* A variant of the ceiling's resolution that keeps the override as the
\* client's default.
retry_ceiling_stored(default, override) ==
    IF override = NoOverride
    THEN [ceiling |-> default, default |-> default]
    ELSE [ceiling |-> override, default |-> override]

\* _arequest(..., max_retry_attempts=override): the ceiling of this call, and
\* the client's default as the call leaves it.
retry_ceiling(default, override) ==
    [ceiling |-> IF override = NoOverride THEN default ELSE override,
     default |-> default]

classify(response) ==
    IF response = NoStatus THEN "TransportFailure"
    ELSE IF response = 429 \/ response >= 500 THEN "RetryableFailure"
    ELSE IF response >= 400 THEN "PermanentFailure"
    ELSE "Success"

\* Variants of next_delay that a slip would give: the ceiling reached one
\* attempt early,
next_delay_one_short(attempt_index, outcome, max_attempts) ==
    IF outcome = "PermanentFailure" THEN "Stop"
    ELSE IF attempt_index + 1 >= max_attempts THEN "Stop"
    ELSE "Retry"

\* the kind of the failure not looked at.
next_delay_any_failure(attempt_index, outcome, max_attempts) ==
    IF attempt_index >= max_attempts THEN "Stop" ELSE "Retry"

\* RetryPolicy.next_delay: Stop or Retry after the attempt with this index.
next_delay(attempt_index, outcome, max_attempts) ==
    IF outcome = "PermanentFailure" THEN "Stop"
    ELSE IF attempt_index >= max_attempts THEN "Stop"
    ELSE "Retry"

\* The exception class the client raises for a final failed outcome.
error_of(outcome) ==
    IF outcome = "PermanentFailure" THEN "PermanentError" ELSE "RetryableError"

\* What the awaited client call hands back to its caller after an attempt:
\* "pending" (the client retries, the await goes on), "response", or the
\* class of the exception raised.
signal_of(attempt_index, outcome, max_attempts) ==
    IF outcome = "Success" THEN "response"
    ELSE IF next_delay(attempt_index, outcome, max_attempts) = "Retry" THEN "pending"
    ELSE error_of(outcome)

\* ------------------------------------------------------- circuit breaker
CircuitBreakerState ==
    [failures |-> 0, last_failure_time |-> 0, state |-> "closed"]

\* Variants of _check_circuit_breaker that a slip in the code would give:
\* the timeout compared with >= instead of >,
check_circuit_breaker_at_timeout(cb, t_now) ==
    IF cb.state = "open"
    THEN IF t_now - cb.last_failure_time >= RecoveryTicks
         THEN [raised |-> FALSE, cb |-> [cb EXCEPT !.state = "half_open"]]
         ELSE [raised |-> TRUE, cb |-> cb]
    ELSE [raised |-> FALSE, cb |-> cb]

\* the timeout not looked at,
check_circuit_breaker_no_timeout(cb, t_now) ==
    IF cb.state = "open"
    THEN [raised |-> FALSE, cb |-> [cb EXCEPT !.state = "half_open"]]
    ELSE [raised |-> FALSE, cb |-> cb]

\* the failure count cleared on the way to half_open,
check_circuit_breaker_clearing(cb, t_now) ==
    IF cb.state = "open"
    THEN IF t_now - cb.last_failure_time > RecoveryTicks
         THEN [raised |-> FALSE,
               cb |-> [cb EXCEPT !.state = "half_open", !.failures = 0]]
         ELSE [raised |-> TRUE, cb |-> cb]
    ELSE [raised |-> FALSE, cb |-> cb]

\* a call held back while another is on probation in half_open,
check_circuit_breaker_single_probe(cb, t_now) ==
    IF cb.state = "open"
    THEN IF t_now - cb.last_failure_time > RecoveryTicks
         THEN [raised |-> FALSE, cb |-> [cb EXCEPT !.state = "half_open"]]
         ELSE [raised |-> TRUE, cb |-> cb]
    ELSE [raised |-> cb.state = "half_open", cb |-> cb]

\* the rejection itself counted as a failure.
check_circuit_breaker_counting(cb, t_now) ==
    IF cb.state = "open"
    THEN IF t_now - cb.last_failure_time > RecoveryTicks
         THEN [raised |-> FALSE, cb |-> [cb EXCEPT !.state = "half_open"]]
         ELSE [raised |-> TRUE,
               cb |-> [cb EXCEPT !.failures = @ + 1, !.last_failure_time = t_now]]
    ELSE [raised |-> FALSE, cb |-> cb]

\* _check_circuit_breaker: the breaker after the check, and whether the
\* check raised.
check_circuit_breaker(cb, t_now) ==
    IF cb.state = "open"
    THEN IF t_now - cb.last_failure_time > RecoveryTicks
         THEN [raised |-> FALSE, cb |-> [cb EXCEPT !.state = "half_open"]]
         ELSE [raised |-> TRUE, cb |-> cb]
    ELSE [raised |-> FALSE, cb |-> cb]

\* A variant of the bare raise that ends the except clause: the error dropped.
reraise_swallowed(error) == "none"

\* The bare raise that ends the except clause: the error that was caught.
reraise(error) == error

\* A variant of the except clause that takes in the cancellation too.
caught_with_cancellation(error) ==
    error \in {"RetryableError", "PermanentError", "CancelledError"}

\* A variant of the except clause that names RetryableError alone.
caught_retryable_only(error) == error = "RetryableError"

\* The except clause of echo_json_resilient.
caught(error) == error \in {"RetryableError", "PermanentError"}

\* Variants of the try block that a slip in the code would give:
\* the threshold compared with > instead of >=,
record_above_threshold(cb, signal, t_now) ==
    IF signal = "response"
    THEN IF cb.state = "half_open"
         THEN [cb EXCEPT !.state = "closed", !.failures = 0]
         ELSE cb
    ELSE IF caught(signal)
    THEN [failures |-> cb.failures + 1,
          last_failure_time |-> t_now,
          state |-> IF cb.failures + 1 > failure_threshold THEN "open" ELSE cb.state]
    ELSE cb

\* the failure count left as it is on recovery,
record_keeping_failures(cb, signal, t_now) ==
    IF signal = "response"
    THEN IF cb.state = "half_open"
         THEN [cb EXCEPT !.state = "closed"]
         ELSE cb
    ELSE IF caught(signal)
    THEN [failures |-> cb.failures + 1,
          last_failure_time |-> t_now,
          state |-> IF cb.failures + 1 >= failure_threshold THEN "open" ELSE cb.state]
    ELSE cb

\* every failed attempt recorded, the retried ones included,
record_each_attempt(cb, signal, t_now) ==
    IF signal = "response"
    THEN IF cb.state = "half_open"
         THEN [cb EXCEPT !.state = "closed", !.failures = 0]
         ELSE cb
    ELSE [failures |-> cb.failures + 1,
          last_failure_time |-> t_now,
          state |-> IF cb.failures + 1 >= failure_threshold THEN "open" ELSE cb.state]

\* the breaker opened one failure early,
record_one_early(cb, signal, t_now) ==
    IF signal = "response"
    THEN IF cb.state = "half_open"
         THEN [cb EXCEPT !.state = "closed", !.failures = 0]
         ELSE cb
    ELSE IF caught(signal)
    THEN [failures |-> cb.failures + 1,
          last_failure_time |-> t_now,
          state |-> IF cb.failures + 2 >= failure_threshold THEN "open" ELSE cb.state]
    ELSE cb

\* the failure count cleared by every success.
record_resetting_on_success(cb, signal, t_now) ==
    IF signal = "response"
    THEN IF cb.state = "half_open"
         THEN [cb EXCEPT !.state = "closed", !.failures = 0]
         ELSE [cb EXCEPT !.failures = 0]
    ELSE IF caught(signal)
    THEN [failures |-> cb.failures + 1,
          last_failure_time |-> t_now,
          state |-> IF cb.failures + 1 >= failure_threshold THEN "open" ELSE cb.state]
    ELSE cb

\* The try block of echo_json_resilient around the awaited echo_json call:
\* the breaker after the client handed back `signal` at time t_now.
record(cb, signal, t_now) ==
    IF signal = "response"
    THEN IF cb.state = "half_open"
         THEN [cb EXCEPT !.state = "closed", !.failures = 0]
         ELSE cb
    ELSE IF caught(signal)
    THEN [failures |-> cb.failures + 1,
          last_failure_time |-> t_now,
          state |-> IF cb.failures + 1 >= failure_threshold THEN "open" ELSE cb.state]
    ELSE cb

\* ---------------------------------------------------------- rate limiter
refill(tokens, elapsed) ==
    Min(capacity * OneToken, tokens + elapsed * token_refresh_rate)

\* A variant of the wait that leaves the missing part of a token out.
wait_time_whole_token(tokens) == OneToken \div token_refresh_rate

wait_time(tokens) == (OneToken - tokens) \div token_refresh_rate

\* A variant of the deduction that lets the call through without a token.
deduct_none(tokens) == tokens

deduct(tokens) == tokens - OneToken

\* ------------------------------------------------------------------ state
VARIABLES
    now,                 \* time.time(), in ticks since the client was built
    circuit_breaker,     \* self._circuit_breaker
    rate_limit_tokens,   \* self._rate_limit_tokens, in 1/TicksPerSecond token
    last_token_refresh,  \* self._last_token_refresh
    pc,                  \* where each task is: idle, rate_limited, in_flight
    op,                  \* the operation of each task's call in progress
    attempts,            \* network attempts made by that call so far
    max_attempts,        \* the retry ceiling of that call
    wake,                \* when a rate-limited task's sleep ends
    recorded,            \* failures the breaker recorded for that call so far
    passed,              \* calls that have left the rate limiter (up to MaxPassed)
    streak,              \* failures recorded in a row from (closed, 0); -1: none
    ev,                  \* the last step, and what the call it ended came to
    default_max_retry_attempts,  \* the retry ceiling the client was built with
    STATUS_ENDPOINT,     \* HTTPBinClient.STATUS_ENDPOINT, shared by all calls
    endpoint,            \* the descriptor each test_status call hands to _arequest
    admitted_in,         \* the breaker state each call in progress was admitted in
    opened_at,           \* when the breaker, if open, opened; 0 otherwise
    rendered             \* the last render: template, parameter set, result

vars == <<now, circuit_breaker, rate_limit_tokens, last_token_refresh, pc, op,
          attempts, max_attempts, wake, recorded, passed, streak, ev,
          default_max_retry_attempts, STATUS_ENDPOINT, endpoint, admitted_in,
          opened_at, rendered>>

\* What the calls through echo_json_resilient never touch.
client == <<default_max_retry_attempts, STATUS_ENDPOINT, endpoint, rendered>>

\* A step that ends no call.
Event(kind, t) ==
    [kind |-> kind, task |-> t, from |-> circuit_breaker.state,
     outcome |-> "none", error |-> "none", status |-> NoStatus,
     attempts |-> 0, recorded |-> 0, override |-> NoOverride]

\* A step that ends task t's call: the final outcome, the exception raised,
\* the attempts the call made and the failures the breaker recorded for it.
Ending(kind, t, outcome, error, status, n, rec) ==
    [kind |-> kind, task |-> t, from |-> circuit_breaker.state,
     outcome |-> outcome, error |-> error, status |-> status,
     attempts |-> n, recorded |-> rec, override |-> NoOverride]

Count(n) == Min(n, MaxPassed)

Init ==
    /\ now = 0
    /\ circuit_breaker = CircuitBreakerState
    /\ rate_limit_tokens = initial_tokens * OneToken
    /\ last_token_refresh = 0
    /\ pc = [t \in Tasks |-> "idle"]
    /\ op = [t \in Tasks |-> "none"]
    /\ attempts = [t \in Tasks |-> 0]
    /\ max_attempts = [t \in Tasks |-> 0]
    /\ wake = [t \in Tasks |-> 0]
    /\ recorded = [t \in Tasks |-> 0]
    /\ passed = 0
    /\ streak = 0
    /\ ev = [kind |-> "init", task |-> NoTask, from |-> "closed",
             outcome |-> "none", error |-> "none", status |-> NoStatus,
             attempts |-> 0, recorded |-> 0, override |-> NoOverride]
    /\ default_max_retry_attempts = client_max_retry_attempts
    /\ STATUS_ENDPOINT = StatusEndpoint
    /\ endpoint = [t \in Tasks |-> NoEndpoint]
    /\ admitted_in = [t \in Tasks |-> "none"]
    /\ opened_at = 0
    /\ rendered = [template |-> <<>>,
                   params |-> [n \in ParamNames |-> Absent],
                   result |-> [error |-> "none", path |-> <<>>]]

\* Tasks are interchangeable: a new call takes the lowest free task.
FreeTask(t) == pc[t] = "idle" /\ \A u \in Tasks : u < t => pc[u] # "idle"

\* ---------------------------------------------------------------- actions
\* echo_json_resilient up to its first suspension: the admission check,
\* then _rate_limit up to asyncio.sleep or, with a token at hand, through to
\* the awaited client call.
echo_json_resilient(t) ==
    /\ FreeTask(t)
    /\ UNCHANGED <<now, streak, attempts, recorded, client>>
    /\ LET adm == check_circuit_breaker(circuit_breaker, now)
           tokens == refill(rate_limit_tokens, now - last_token_refresh)
       IN  IF adm.raised
           THEN /\ circuit_breaker' = adm.cb
                /\ ev' = Ending("rejected", t, "CircuitOpen", "PermanentError",
                                NoStatus, 0, 0)
                /\ UNCHANGED <<rate_limit_tokens, last_token_refresh, pc, op,
                               max_attempts, wake, passed, admitted_in,
                               opened_at>>
           ELSE /\ circuit_breaker' = adm.cb
                /\ admitted_in' = [admitted_in EXCEPT ![t] = adm.cb.state]
                /\ opened_at' = IF adm.cb.state = "open" THEN opened_at ELSE 0
                /\ last_token_refresh' = now
                /\ op' = [op EXCEPT ![t] = "echo"]
                /\ max_attempts' = [max_attempts EXCEPT ![t] =
                       retry_ceiling(default_max_retry_attempts, NoOverride).ceiling]
                /\ IF tokens < OneToken
                   THEN /\ rate_limit_tokens' = tokens
                        /\ wake' = [wake EXCEPT ![t] = now + wait_time(tokens)]
                        /\ pc' = [pc EXCEPT ![t] = "rate_limited"]
                        /\ ev' = Event("suspended", t)
                        /\ UNCHANGED passed
                   ELSE /\ rate_limit_tokens' = deduct(tokens)
                        /\ pc' = [pc EXCEPT ![t] = "in_flight"]
                        /\ passed' = Count(passed + 1)
                        /\ ev' = Event("admitted", t)
                        /\ UNCHANGED wake

\* A variant of the wake-up that goes on only with a whole token at hand.
rate_limit_resume_with_token(t) ==
    /\ pc[t] = "rate_limited"
    /\ now >= wake[t]
    /\ rate_limit_tokens >= OneToken
    /\ rate_limit_tokens' = deduct(rate_limit_tokens)
    /\ pc' = [pc EXCEPT ![t] = "in_flight"]
    /\ wake' = [wake EXCEPT ![t] = 0]
    /\ passed' = Count(passed + 1)
    /\ ev' = Event("resumed", t)
    /\ UNCHANGED <<now, circuit_breaker, last_token_refresh, op, attempts,
                   max_attempts, recorded, streak, client, admitted_in,
                   opened_at>>

\* _rate_limit after asyncio.sleep: the token is deducted and the client
\* call begins.
rate_limit_resume(t) ==
    /\ pc[t] = "rate_limited"
    /\ now >= wake[t]
    /\ rate_limit_tokens' = deduct(rate_limit_tokens)
    /\ pc' = [pc EXCEPT ![t] = "in_flight"]
    /\ wake' = [wake EXCEPT ![t] = 0]
    /\ passed' = Count(passed + 1)
    /\ ev' = Event("resumed", t)
    /\ UNCHANGED <<now, circuit_breaker, last_token_refresh, op, attempts,
                   max_attempts, recorded, streak, client, admitted_in,
                   opened_at>>

\* The call of task t is over: its per-call state goes with it.
Finished(t) ==
    /\ pc' = [pc EXCEPT ![t] = "idle"]
    /\ op' = [op EXCEPT ![t] = "none"]
    /\ attempts' = [attempts EXCEPT ![t] = 0]
    /\ max_attempts' = [max_attempts EXCEPT ![t] = 0]
    /\ recorded' = [recorded EXCEPT ![t] = 0]
    /\ endpoint' = [endpoint EXCEPT ![t] = NoEndpoint]
    /\ admitted_in' = [admitted_in EXCEPT ![t] = "none"]

\* One attempt of the awaited self._client.echo_json comes back with
\* `response`; when it was the last one, echo_json_resilient runs to its end.
echo_json_attempt(t, response) ==
    /\ pc[t] = "in_flight"
    /\ op[t] = "echo"
    /\ LET outcome == classify(response)
           signal == signal_of(attempts[t], outcome, max_attempts[t])
           cb == record(circuit_breaker, signal, now)
           more == cb.failures - circuit_breaker.failures
           rec == recorded[t] + (IF more > 0 THEN more ELSE 0)
           surfaced == IF signal = "response" THEN "none" ELSE reraise(signal)
       IN  /\ circuit_breaker' = cb
           /\ opened_at' =
                  IF cb.state # "open" THEN 0
                  ELSE IF circuit_breaker.state # "open" THEN now
                  ELSE opened_at
           /\ streak' =
                  IF signal = "response"
                  THEN (IF cb.state = "closed" /\ cb.failures = 0 THEN 0 ELSE -1)
                  ELSE IF cb.failures = circuit_breaker.failures THEN streak
                  ELSE IF streak >= 0 THEN streak + 1 ELSE -1
           /\ IF signal = "pending"
              THEN /\ attempts' = [attempts EXCEPT ![t] = @ + 1]
                   /\ recorded' = [recorded EXCEPT ![t] = rec]
                   /\ ev' = Event("retrying", t)
                   /\ UNCHANGED <<pc, op, max_attempts, endpoint, admitted_in>>
              ELSE /\ Finished(t)
                   /\ ev' = Ending(IF surfaced = "none" THEN "returned" ELSE "raised",
                                   t, outcome, surfaced,
                                   response, attempts[t] + 1, rec)
    /\ UNCHANGED <<now, rate_limit_tokens, last_token_refresh, wake, passed,
                   default_max_retry_attempts, STATUS_ENDPOINT, rendered>>

\* The caller cancels task t at the await it is suspended in: asyncio raises
\* CancelledError there, in _rate_limit at asyncio.sleep (the deduction is
\* not reached) or in the try block at the awaited client call.
cancel(t) ==
    /\ pc[t] \in {"rate_limited", "in_flight"}
    /\ op[t] = "echo"
    /\ LET cb == IF pc[t] = "in_flight"
                 THEN record(circuit_breaker, "CancelledError", now)
                 ELSE circuit_breaker
           more == cb.failures - circuit_breaker.failures
       IN  /\ circuit_breaker' = cb
           /\ opened_at' =
                  IF cb.state # "open" THEN 0
                  ELSE IF circuit_breaker.state # "open" THEN now
                  ELSE opened_at
           /\ ev' = Ending("cancelled", t, "Cancelled", "CancelledError", NoStatus,
                           attempts[t], recorded[t] + (IF more > 0 THEN more ELSE 0))
    /\ Finished(t)
    /\ wake' = [wake EXCEPT ![t] = 0]
    /\ UNCHANGED <<now, rate_limit_tokens, last_token_refresh, passed, streak,
                   default_max_retry_attempts, STATUS_ENDPOINT, rendered>>

\* ResilientClient.test_status: straight to self._client.test_status, which
\* copies STATUS_ENDPOINT with the path of this status code and awaits
\* _arequest with it.
test_status(t, status_code, max_retry_attempts) ==
    /\ FreeTask(t)
    /\ LET copied == model_copy(STATUS_ENDPOINT, format_path(status_code))
           retry == retry_ceiling(default_max_retry_attempts, max_retry_attempts)
       IN  /\ STATUS_ENDPOINT' = copied.self
           /\ endpoint' = [endpoint EXCEPT ![t] = copied.copy]
           /\ default_max_retry_attempts' = retry.default
           /\ max_attempts' = [max_attempts EXCEPT ![t] = retry.ceiling]
    /\ op' = [op EXCEPT ![t] = "status"]
    /\ pc' = [pc EXCEPT ![t] = "in_flight"]
    /\ ev' = [Event("status_started", t) EXCEPT !.override = max_retry_attempts,
                                                !.status = status_code]
    /\ UNCHANGED <<now, circuit_breaker, rate_limit_tokens, last_token_refresh,
                   attempts, wake, recorded, passed, streak, admitted_in,
                   opened_at, rendered>>

\* One attempt of the awaited self._client.test_status comes back.
test_status_attempt(t, response) ==
    /\ pc[t] = "in_flight"
    /\ op[t] = "status"
    /\ LET outcome == classify(response)
           signal == signal_of(attempts[t], outcome, max_attempts[t])
       IN  IF signal = "pending"
           THEN /\ attempts' = [attempts EXCEPT ![t] = @ + 1]
                /\ ev' = Ending("status_retrying", t, outcome, "none", response,
                                attempts[t] + 1, recorded[t])
                /\ UNCHANGED <<pc, op, max_attempts, recorded, endpoint,
                               admitted_in>>
           ELSE /\ Finished(t)
                /\ ev' = Ending(IF signal = "response" THEN "status_returned"
                                ELSE "status_raised",
                                t, outcome,
                                IF signal = "response" THEN "none" ELSE signal,
                                response, attempts[t] + 1, recorded[t])
    /\ UNCHANGED <<now, circuit_breaker, rate_limit_tokens, last_token_refresh,
                   wake, passed, streak, default_max_retry_attempts,
                   STATUS_ENDPOINT, opened_at, rendered>>

\* A descriptor's path template is rendered with a parameter set.
render_path(template, params) ==
    /\ rendered' = [template |-> template, params |-> params,
                    result |-> render(template, params)]
    /\ UNCHANGED <<now, circuit_breaker, rate_limit_tokens, last_token_refresh,
                   pc, op, attempts, max_attempts, wake, recorded, passed, streak,
                   ev, default_max_retry_attempts, STATUS_ENDPOINT, endpoint,
                   admitted_in, opened_at>>

\* The clock: one tick, within MaxFineTicks of the start of a period.
Tick ==
    /\ now % RecoveryTicks < MaxFineTicks
    /\ now' = now + 1
    /\ ev' = Event("tick", NoTask)
    /\ UNCHANGED <<circuit_breaker, rate_limit_tokens, last_token_refresh, pc, op,
                   attempts, max_attempts, wake, recorded, passed, streak, client,
                   admitted_in, opened_at>>

\* The clock: a period of recovery_timeout seconds in which no task runs.
Idle ==
    /\ now \div RecoveryTicks < MaxIdles
    /\ now' = now + RecoveryTicks
    /\ ev' = Event("idle", NoTask)
    /\ UNCHANGED <<circuit_breaker, rate_limit_tokens, last_token_refresh, pc, op,
                   attempts, max_attempts, wake, recorded, passed, streak, client,
                   admitted_in, opened_at>>


Next ==
    \/ \E t \in Tasks : echo_json_resilient(t)
    \/ \E t \in Tasks : rate_limit_resume(t)
    \/ \E t \in Tasks, r \in Responses : echo_json_attempt(t, r)
    \/ Tick
    \/ Idle

\* The calls that go through echo_json_resilient, under any interleaving of
\* NumTasks tasks and any responses of the server.
Spec == Init /\ [][Next]_vars

\* The same calls under the scheduling asyncio gives: the clock goes on, and
\* a task whose sleep is over is resumed.
SpecLive ==
    /\ Init
    /\ [][Next]_vars
    /\ WF_vars(Tick)
    /\ WF_vars(Idle)
    /\ \A t \in Tasks : WF_vars(rate_limit_resume(t))

\* The same calls, any of which the caller may cancel while it waits.
NextCancel ==
    \/ Next
    \/ \E t \in Tasks : cancel(t)

SpecCancel == Init /\ [][NextCancel]_vars

\* Rendering on its own, for every template and every parameter set.
NextRender == \E template \in Templates, params \in ParamSets : render_path(template, params)

SpecRender == Init /\ [][NextRender]_vars

\* The last instant of the clock.
MaxTime == MaxIdles * RecoveryTicks + MaxFineTicks

\* HTTPBinClient.test_status on its own: the retry loop, the per-call
\* ceiling and the copied descriptor, under any interleaving of NumTasks
\* tasks and any responses of the server.
NextRetry ==
    \/ \E t \in Tasks, c \in StatusCodes, m \in Overrides : test_status(t, c, m)
    \/ \E t \in Tasks, r \in Responses : test_status_attempt(t, r)

SpecRetry == Init /\ [][NextRetry]_vars

NextClient ==
    \/ \E t \in Tasks : echo_json_resilient(t)
    \/ \E t \in Tasks : rate_limit_resume(t)
    \/ \E t \in Tasks, r \in Responses : echo_json_attempt(t, r)
    \/ Tick
    \/ NextRetry

\* Both operations of ResilientClient, interleaved, within the first
\* recovery period after the client was built.
SpecClient == Init /\ [][NextClient]_vars

\* ------------------------------------------------------------- properties
\* The steps in which echo_json_resilient is entered (its admission check runs).
EntryKinds == {"rejected", "suspended", "admitted"}

RateLimited == {t \in Tasks : pc[t] = "rate_limited"}

\* C1: from a closed breaker with failure_count 0, once failure_threshold
\* failed calls have been recorded with no success between them the breaker
\* is open, and with fewer than failure_threshold of them it is still closed.
C1_OpensAtThreshold ==
    /\ (ev.kind = "raised" /\ streak = failure_threshold)
           => circuit_breaker.state = "open"
    /\ (streak >= 0 /\ streak < failure_threshold)
           => circuit_breaker.state = "closed"

C1_Witness ==
    /\ ev.kind = "raised"
    /\ streak = failure_threshold
    /\ circuit_breaker.failures = failure_threshold

\* C2: a call that enters echo_json_resilient while the breaker is open and
\* now - last_failure_time <= recovery_timeout is rejected by the admission
\* check, and no network attempt is made for it.
C2_RejectedWhileOpen ==
    (/\ ev.kind \in EntryKinds
     /\ ev.from = "open"
     /\ now - circuit_breaker.last_failure_time <= RecoveryTicks)
        => /\ ev.kind = "rejected"
           /\ pc[ev.task] = "idle"
           /\ attempts[ev.task] = 0
           /\ ev.attempts = 0

C2_Witness ==
    /\ ev.kind = "rejected"
    /\ ev.from = "open"
    /\ now - circuit_breaker.last_failure_time = RecoveryTicks

\* C3: with the breaker open and more than recovery_timeout elapsed since
\* last_failure_time, the next admission check moves the breaker to half_open
\* and admits the call; the breaker reaches half_open in no other step.
C3_HalfOpenOnAdmission ==
    /\ (/\ ev.kind \in EntryKinds
        /\ ev.from = "open"
        /\ now - circuit_breaker.last_failure_time > RecoveryTicks)
           => /\ ev.kind \in {"suspended", "admitted"}
              /\ circuit_breaker.state = "half_open"
              /\ pc[ev.task] \in {"rate_limited", "in_flight"}
    /\ (ev.from # "half_open" /\ circuit_breaker.state = "half_open")
           => /\ ev.kind \in {"suspended", "admitted"}
              /\ ev.from = "open"
              /\ now - circuit_breaker.last_failure_time > RecoveryTicks

C3_Witness ==
    /\ ev.kind = "admitted"
    /\ ev.from = "open"
    /\ circuit_breaker.state = "half_open"
    /\ now - circuit_breaker.last_failure_time = RecoveryTicks + 1

\* C4: when a call returns successfully while the breaker is half_open, the
\* breaker becomes closed and failure_count becomes 0.
C4_SuccessCloses ==
    (ev.kind = "returned" /\ ev.from = "half_open")
        => /\ circuit_breaker.state = "closed"
           /\ circuit_breaker.failures = 0

C4_Witness == ev.kind = "returned" /\ ev.from = "half_open"

\* C5: when a call ends in a failure while the breaker is half_open, the
\* breaker is open again and last_failure_time is the time of that failure.
C5_FailureReopens ==
    (ev.kind = "raised" /\ ev.from = "half_open")
        => /\ circuit_breaker.state = "open"
           /\ circuit_breaker.last_failure_time = now

C5_Witness ==
    /\ ev.kind = "raised"
    /\ ev.from = "half_open"
    /\ circuit_breaker.failures = failure_threshold + 1

\* C6: in every reachable state 0 <= tokens <= capacity.
C6_TokensInRange ==
    /\ rate_limit_tokens >= 0
    /\ rate_limit_tokens <= capacity * OneToken

\* C7: starting from a full bucket, the number of calls that have passed the
\* limiter by elapsed time t never exceeds capacity + refill_rate * t.
C7_NoOverAllocation ==
    passed * OneToken <= capacity * OneToken + token_refresh_rate * now

\* C8: from the full bucket, with no time elapsed, the first `capacity` calls
\* pass the limiter without suspending and the next one suspends; a call that
\* suspends sleeps (1 - tokens) / refill_rate, one second per token per
\* second when tokens is 0, and passes the limiter only after that.
C8_SuspendsForDeficit ==
    [][/\ (now = 0 /\ ev'.kind = "admitted")
              => passed < initial_tokens
       /\ (now = 0 /\ ev'.kind = "suspended")
              => passed + Cardinality(RateLimited) >= initial_tokens
       /\ ev'.kind = "suspended"
              => /\ wake'[ev'.task] - now' =
                        (OneToken - rate_limit_tokens') \div token_refresh_rate
                 /\ rate_limit_tokens' = 0
                        => wake'[ev'.task] - now' = TicksPerSecond \div token_refresh_rate
                 /\ pc'[ev'.task] = "rate_limited"
       /\ \A t \in Tasks :
              (pc[t] = "rate_limited" /\ pc'[t] # "rate_limited")
                  => now >= wake[t] /\ ev'.kind = "resumed"
      ]_vars

C8_Witness ==
    /\ ev.kind = "resumed"
    /\ passed = initial_tokens + 1
    /\ now = TicksPerSecond \div token_refresh_rate

\* C9: a call through echo_json_resilient that ends in a failure after k >= 1
\* attempts, retries included, raises failure_count by exactly 1.
C9_OneRecordPerCall ==
    ev.kind = "raised" => (ev.attempts >= 1 /\ ev.recorded = 1)

C9_Witness == ev.kind = "raised" /\ ev.attempts >= 2 /\ ev.recorded = 1

\* C10: a call through echo_json_resilient whose final outcome is
\* PermanentFailure, RetryableFailure or TransportFailure is recorded as a
\* failure (failure_count + 1, last_failure_time = now); one whose final
\* outcome is Success is not.
C10_FailuresRecorded ==
    /\ (/\ ev.kind \in {"raised", "returned"}
        /\ ev.outcome \in {"PermanentFailure", "RetryableFailure", "TransportFailure"})
           => /\ ev.recorded = 1
              /\ circuit_breaker.last_failure_time = now
              /\ circuit_breaker.failures >= 1
    /\ (ev.kind \in {"raised", "returned"} /\ ev.outcome = "Success")
           => ev.recorded = 0

C10_Witness ==
    /\ ev.kind = "raised"
    /\ ev.outcome = "PermanentFailure"
    /\ ev.status = 404
    /\ ev.recorded = 1

\* The steps in which an attempt of the awaited echo_json call comes back.
AttemptKinds == {"retrying", "returned", "raised"}

\* C11: failure_count changes in two ways only, +1 when a failed call is
\* recorded and back to 0 when a success is recorded in half_open; a call
\* that returns successfully while the breaker is closed leaves state,
\* failure_count and last_failure_time as they were.
C11_FailureCountFrame ==
    [][/\ circuit_breaker'.failures # circuit_breaker.failures
              => \/ /\ ev'.kind = "raised"
                    /\ circuit_breaker'.failures = circuit_breaker.failures + 1
                 \/ /\ ev'.kind = "returned"
                    /\ circuit_breaker.state = "half_open"
                    /\ circuit_breaker'.failures = 0
       /\ (ev'.kind = "returned" /\ circuit_breaker.state = "closed")
              => circuit_breaker' = circuit_breaker
      ]_vars

C11_Witness ==
    /\ ev.kind = "returned"
    /\ ev.from = "closed"
    /\ circuit_breaker.state = "closed"
    /\ circuit_breaker.failures > 0

\* C12: within a call through echo_json_resilient the admission check comes
\* first, then the token, then the attempts, then the breaker update with the
\* final outcome: a call enters the limiter only if the check admits it, it
\* reaches its attempts only by a step that takes exactly one token, an
\* attempt is made only by a call that has done so, an attempt takes no
\* token, and an attempt that is retried leaves the breaker alone.
C12_StepsInOrder ==
    [][/\ ev'.kind \in {"suspended", "admitted"}
              => ~check_circuit_breaker(circuit_breaker, now).raised
       /\ \A t \in Tasks :
              (pc[t] # "in_flight" /\ pc'[t] = "in_flight")
                  => /\ ev'.kind \in {"admitted", "resumed"}
                     /\ ev'.task = t
                     /\ attempts'[t] = 0
                     /\ rate_limit_tokens' =
                            (IF ev'.kind = "resumed" THEN rate_limit_tokens
                             ELSE refill(rate_limit_tokens, now - last_token_refresh))
                            - OneToken
       /\ ev'.kind = "suspended" => pc'[ev'.task] = "rate_limited"
       /\ ev'.kind \in AttemptKinds
              => /\ pc[ev'.task] = "in_flight"
                 /\ rate_limit_tokens' = rate_limit_tokens
                 /\ passed' = passed
       /\ ev'.kind \notin {"returned", "raised"}
              => /\ circuit_breaker'.failures = circuit_breaker.failures
                 /\ circuit_breaker'.last_failure_time = circuit_breaker.last_failure_time
                 /\ circuit_breaker'.state # "closed" \/ circuit_breaker.state = "closed"
      ]_vars

C12_Witness ==
    /\ ev.kind = "raised"
    /\ ev.attempts = client_max_retry_attempts + 1
    /\ passed = initial_tokens + 1
    /\ rate_limit_tokens = 0 - OneToken

\* C13: every request operation of ResilientClient, test_status included, is
\* held back by an open breaker and has its final failure recorded by the
\* breaker.
C13_EveryOperationGuarded ==
    /\ ev.kind = "status_started"
           => ~check_circuit_breaker(circuit_breaker, now).raised
    /\ ev.kind = "status_raised"
           => ev.recorded = 1 /\ circuit_breaker.failures >= 1

\* C14: a call rejected by the admission check fails with an error of a kind
\* other than the ones a failed network attempt raises.
C14_RejectionDistinct ==
    ev.kind = "rejected" => ev.error \notin {"PermanentError", "RetryableError"}

\* C15: a call rejected by the admission check leaves the breaker's state,
\* failure_count and last_failure_time and the limiter's tokens and
\* last_token_refresh as they were.
C15_RejectionChangesNothing ==
    [][ev'.kind = "rejected"
           => /\ circuit_breaker' = circuit_breaker
              /\ rate_limit_tokens' = rate_limit_tokens
              /\ last_token_refresh' = last_token_refresh
              /\ passed' = passed
      ]_vars

C15_Witness ==
    /\ ev.kind = "rejected"
    /\ now > last_token_refresh
    /\ rate_limit_tokens < capacity * OneToken
    /\ circuit_breaker.failures = failure_threshold

C17_PermanentNeverRetried ==
    /\ \A i \in 0..(client_max_retry_attempts + 1) :
       \A n \in 0..(client_max_retry_attempts + 1) :
           next_delay(i, "PermanentFailure", n) = "Stop"
    /\ ev.outcome = "PermanentFailure"
           => /\ ev.kind \in {"status_raised", "raised"}
              /\ ev.error = "PermanentError"
              /\ pc[ev.task] = "idle"

C17_Witness ==
    /\ ev.kind = "status_raised"
    /\ ev.status = 404
    /\ ev.error = "PermanentError"
    /\ ev.attempts = 1

\* C18: a max_retry_attempts override is the ceiling of its own call only:
\* the client's default stays what the client was built with, a call without
\* an override gets the default, and no call changes the ceiling of another
\* call in progress.
C18_OverrideIsPerCall ==
    [][/\ default_max_retry_attempts' = client_max_retry_attempts
       /\ ev'.kind = "status_started"
              => max_attempts'[ev'.task] =
                     (IF ev'.override = NoOverride THEN client_max_retry_attempts
                      ELSE ev'.override)
       /\ \A u \in Tasks :
              u # ev'.task => max_attempts'[u] = max_attempts[u]
      ]_vars

C18_Witness ==
    /\ ev.kind = "status_started"
    /\ ev.override = NoOverride
    /\ max_attempts[ev.task] = client_max_retry_attempts
    /\ \E u \in Tasks :
           /\ u # ev.task
           /\ op[u] = "status"
           /\ max_attempts[u] # client_max_retry_attempts

\* C19: the shared STATUS_ENDPOINT keeps its path template through every
\* call; each call works on a copy of its own that carries the path of its
\* own status code, and no call touches the copy of another.
C19_DescriptorNeverMutated ==
    [][/\ STATUS_ENDPOINT' = StatusEndpoint
       /\ ev'.kind = "status_started"
              => endpoint'[ev'.task] =
                     [path |-> <<"/status/", ToString(ev'.status)>>,
                      method |-> "GET"]
       /\ \A u \in Tasks :
              u # ev'.task => endpoint'[u] = endpoint[u]
      ]_vars

C19_Witness ==
    /\ STATUS_ENDPOINT.path = <<"/status/", "{code}">>
    /\ \E t \in Tasks, u \in Tasks :
           /\ op[t] = "status" /\ endpoint[t].path = <<"/status/", "404">>
           /\ op[u] = "status" /\ endpoint[u].path = <<"/status/", "503">>

\* C20: every call that the limiter suspends leaves the limiter and reaches
\* its network attempt: the sleep has a finite length, whatever the token
\* level and however many callers sleep, and nothing else holds the call back
\* (for every sleep that ends within the time the clock covers).
C20_LeavesLimiter ==
    \A t \in Tasks :
        (pc[t] = "rate_limited" /\ wake[t] <= MaxTime) ~> (pc[t] = "in_flight")

C20_Witness ==
    /\ ev.kind = "resumed"
    /\ pc[ev.task] = "in_flight"
    /\ now >= RecoveryTicks
    /\ rate_limit_tokens < 0

\* The final outcomes that are failures.
Failures == {"PermanentFailure", "RetryableFailure", "TransportFailure"}

\* C21: a call cancelled while it sleeps in the rate limiter or while its
\* client call is in flight ends with the cancellation error, makes no further
\* attempt, takes no token and leaves the breaker as it was.
C21_CancellationNotRecorded ==
    [][ev'.kind = "cancelled"
           => /\ ev'.error = "CancelledError"
              /\ ev'.recorded = 0
              /\ circuit_breaker' = circuit_breaker
              /\ rate_limit_tokens' = rate_limit_tokens
              /\ ev'.attempts = attempts[ev'.task]
              /\ pc'[ev'.task] = "idle"
      ]_vars

C21_Witness ==
    /\ ev.kind = "cancelled"
    /\ ev.attempts = 1
    /\ ev.from = "half_open"
    /\ circuit_breaker.state = "half_open"

\* C22: a call through echo_json_resilient whose final outcome is a failure
\* raises that failure's own error, with the status of the last response, once
\* the breaker has recorded it; the breaker opening does not stand in for it.
C22_FailuresNeverSwallowed ==
    (ev.kind \in {"returned", "raised"} /\ ev.outcome \in Failures)
        => /\ ev.kind = "raised"
           /\ ev.error = (IF ev.outcome = "PermanentFailure" THEN "PermanentError"
                           ELSE "RetryableError")
           /\ classify(ev.status) = ev.outcome
           /\ ev.recorded = 1
           /\ circuit_breaker.last_failure_time = now

C22_Witness ==
    /\ ev.kind = "raised"
    /\ ev.from = "closed"
    /\ circuit_breaker.state = "open"
    /\ ev.error = "RetryableError"
    /\ ev.status = 503

\* C23, as stated: the breaker goes from closed to open only after
\* failure_threshold failures recorded in a row, no success between them.
C23_OpensOnConsecutive ==
    (ev.kind = "raised" /\ ev.from = "closed" /\ circuit_breaker.state = "open")
        => streak = failure_threshold

\* C23, amended: the breaker goes from closed to open only in the step that
\* records a failure and brings failure_count from failure_threshold - 1 to
\* failure_threshold; failure_count counts the failures recorded since it was
\* last 0, whether or not successes were recorded between them.
C23_OpensAtCumulativeThreshold ==
    [][(circuit_breaker.state = "closed" /\ circuit_breaker'.state = "open")
           => /\ ev'.kind = "raised"
              /\ circuit_breaker.failures = failure_threshold - 1
              /\ circuit_breaker'.failures = failure_threshold
              /\ circuit_breaker'.last_failure_time = now
      ]_vars

C23_Witness ==
    /\ ev.kind = "raised"
    /\ ev.from = "closed"
    /\ circuit_breaker.state = "open"
    /\ circuit_breaker.failures = failure_threshold
    /\ streak = -1

\* C25: the breaker goes from half_open to closed only when a call returns
\* that was admitted while the breaker was half_open.
C25_ClosedOnlyByProbe ==
    [][(circuit_breaker.state = "half_open" /\ circuit_breaker'.state = "closed")
           => /\ ev'.kind = "returned"
              /\ admitted_in[ev'.task] = "half_open"
      ]_vars

\* C26: while the breaker is open no recorded outcome moves
\* last_failure_time, and an admission check made more than recovery_timeout
\* after the breaker opened is not rejected.
C26_OpenKeepsLastFailure ==
    [][/\ (circuit_breaker.state = "open" /\ ev'.kind = "raised")
              => circuit_breaker'.last_failure_time = circuit_breaker.last_failure_time
       /\ ev'.kind = "rejected" => now - opened_at <= RecoveryTicks
      ]_vars

\* C27: the breaker is closed exactly when failure_count is below
\* failure_threshold.
C27_ClosedIffBelowThreshold ==
    /\ circuit_breaker.state = "closed"
           => circuit_breaker.failures < failure_threshold
    /\ circuit_breaker.state \in {"open", "half_open"}
           => circuit_breaker.failures >= failure_threshold

C27_Witness ==
    /\ circuit_breaker.state = "closed"
    /\ circuit_breaker.failures = failure_threshold - 1
    /\ circuit_breaker.last_failure_time >= RecoveryTicks
    /\ \E t \in Tasks : pc[t] = "in_flight"

\* C28: the admission check rejects a call only when the breaker is open and
\* no more than recovery_timeout has passed since last_failure_time; a call
\* that enters while the breaker is closed or half_open is admitted, so that
\* several calls can be in flight in half_open.
C28_RejectsOnlyWhenOpen ==
    [][/\ ev'.kind = "rejected"
              => /\ circuit_breaker.state = "open"
                 /\ now - circuit_breaker.last_failure_time <= RecoveryTicks
       /\ (ev'.kind \in EntryKinds /\ circuit_breaker.state \in {"closed", "half_open"})
              => ev'.kind \in {"suspended", "admitted"}
      ]_vars

C28_Witness ==
    /\ ev.kind = "admitted"
    /\ ev.from = "half_open"
    /\ circuit_breaker.state = "half_open"
    /\ \A t \in Tasks : pc[t] = "in_flight" /\ admitted_in[t] = "half_open"

====
